---- MODULE Spec2Model ----
(***************************************************************************)
(* Model of honeybee_doe2.properties.model.ModelDoe2Properties: the DOE-2  *)
(* validation battery of a honeybee Model (check_for_extension,            *)
(* check_generic, check_all, check_no_room_holes) and its serialisation    *)
(* (to_dict, apply_properties_from_dict), and of the INP reader            *)
(* command_dict_from_inp.                                                  *)
(*                                                                         *)
(* Python values are tagged with their type, [type |-> ..., v |-> ...], so *)
(* that '' and [] are different values.  A str is a sequence of characters *)
(* where a character is either the newline NL or one line of a check's     *)
(* message.  Every method call is one action; the calls a method makes on  *)
(* its collaborators are recorded, in order, in call.log.                  *)
(***************************************************************************)
EXTENDS Integers, Sequences, FiniteSets, TLC

VARIABLES host, self_host, call

vars == <<host, self_host, call>>

(* ------------------------------ bounds --------------------------------- *)

\* at most this many of the thirteen host-level checks find issues
MaxFaulty == 2
\* a check that finds issues finds one issue or this many
MaxIssues == 2
\* the host Model has at most this many rooms
MaxRooms == 2
\* data["rooms"] has at most this many room dictionaries
MaxDataRooms == 2
\* an INP text has at most this many blocks (commands, comments, malformed blocks)
MaxBlocks == 3

(* --------------------------- Python values ----------------------------- *)

Str(s) == [type |-> "str", v |-> s]

List(l) == [type |-> "list", v |-> l]

None == [type |-> "NoneType", v |-> "None"]

Dict(d) == [type |-> "dict", v |-> d]

\* bool(x) of a str or a list: the value is non-empty
Truthy(x) == Len(x.v) # 0

NL == [c |-> "\n", i |-> 0]

\* sep.join(strs) on a sequence of character sequences
RECURSIVE Join(_, _)
Join(strs, sep) ==
    IF Len(strs) = 0 THEN <<>>
    ELSE IF Len(strs) = 1 THEN strs[1]
    ELSE strs[1] \o <<sep>> \o Join(Tail(strs), sep)

\* [m for msg in lists for m in msg]
RECURSIVE Flatten(_)
Flatten(lists) ==
    IF Len(lists) = 0 THEN <<>> ELSE lists[1] \o Flatten(Tail(lists))

Return(value) == [kind |-> "return", exc |-> "", value |-> value]

Raise(exc, message) == [kind |-> "raise", exc |-> exc, value |-> Str(message)]

(* ------------------------- the collaborators --------------------------- *)

\* the twelve Model checks and the energy extension's check, in no order
HostChecks ==
    { "check_all_duplicate_identifiers", "check_planar", "check_self_intersecting",
      "check_degenerate_rooms", "check_sub_faces_valid", "check_sub_faces_overlapping",
      "check_rooms_solid", "check_upside_down_faces", "check_room_volume_collisions",
      "check_missing_adjacencies", "check_matching_adjacent_areas",
      "check_all_air_boundaries_adjacent", "check_interior_constructions_reversed" }

Units == {"Meters", "Feet"}

\* parse_distance_string('0.03ft', units), in millionths of the unit
parse_distance_string_003ft(units) == IF units = "Feet" THEN 30000 ELSE 9144

\* the issues a check finds: one record per issue
IssueRecords(check, n) == [k \in 1..n |-> [c |-> check, i |-> k]]

\* what a collaborator's check returns when called with raise_exception=False:
\* the records (detailed) or one message line per issue joined by newlines
CheckResult(check, n, detailed) ==
    IF detailed THEN List(IssueRecords(check, n))
    ELSE Str(Join([k \in 1..n |-> <<[c |-> check, i |-> k]>>], NL))

\* one entry of call.log
Invoke(target, idx, method, args) ==
    [target |-> target, idx |-> idx, method |-> method, args |-> args]

\* room.properties.doe2.check_no_holes(raise_exception, detailed) of room number i
check_no_holes(room, i, detailed) ==
    IF room.hole
    THEN IF detailed THEN List(<<[c |-> "check_no_holes", i |-> i]>>)
         ELSE Str(<<[c |-> "check_no_holes", i |-> i]>>)
    ELSE IF detailed THEN List(<<>>) ELSE Str(<<>>)

(* ------------------------- check_no_room_holes ------------------------- *)

\* room_loop with the newest message put first instead of last
RECURSIVE room_loop_prepending(_, _, _, _, _)
room_loop_prepending(h, detailed, i, msgs, log) ==
    IF i > Len(h.rooms) THEN [msgs |-> msgs, log |-> log]
    ELSE LET msg == check_no_holes(h.rooms[i], i, detailed)
             entry == Invoke("room", i, "check_no_holes", <<FALSE, detailed>>)
         IN room_loop_prepending(h, detailed, i + 1,
                      IF detailed THEN msg.v \o msgs
                      ELSE IF msg # Str(<<>>) THEN <<msg.v>> \o msgs ELSE msgs,
                      Append(log, entry))

\* the loop over self.host.rooms, from room i on: the msgs list and the calls made
RECURSIVE room_loop(_, _, _, _, _)
room_loop(h, detailed, i, msgs, log) ==
    IF i > Len(h.rooms) THEN [msgs |-> msgs, log |-> log]
    ELSE LET msg == check_no_holes(h.rooms[i], i, detailed)
             entry == Invoke("room", i, "check_no_holes", <<FALSE, detailed>>)
         IN room_loop(h, detailed, i + 1,
                      IF detailed THEN msgs \o msg.v
                      ELSE IF msg # Str(<<>>) THEN Append(msgs, msg.v) ELSE msgs,
                      Append(log, entry))

\* check_no_room_holes without line 159: detailed is used as the caller gave it
check_no_room_holes_detailed_kept(h, raise_exception, detailed_arg) ==
    LET detailed == detailed_arg
        loop == room_loop(h, detailed, 1, <<>>, <<>>)
        full_msg == Join(loop.msgs, NL)
    IN [host |-> h, log |-> loop.log,
        outcome |-> IF detailed THEN Return(List(loop.msgs))
                    ELSE IF raise_exception /\ Len(loop.msgs) # 0
                         THEN Raise("ValueError", full_msg)
                         ELSE Return(Str(full_msg))]

\* check_no_room_holes that takes the rooms it has checked out of the host
check_no_room_holes_consuming(h, raise_exception, detailed_arg) ==
    LET detailed == IF raise_exception THEN FALSE ELSE detailed_arg
        loop == room_loop(h, detailed, 1, <<>>, <<>>)
        full_msg == Join(loop.msgs, NL)
    IN [host |-> [h EXCEPT !.rooms = <<>>], log |-> loop.log,
        outcome |-> IF detailed THEN Return(List(loop.msgs))
                    ELSE IF raise_exception /\ Len(loop.msgs) # 0
                         THEN Raise("ValueError", full_msg)
                         ELSE Return(Str(full_msg))]

check_no_room_holes(h, raise_exception, detailed_arg) ==
    LET detailed == IF raise_exception THEN FALSE ELSE detailed_arg
        loop == room_loop(h, detailed, 1, <<>>, <<>>)
        full_msg == Join(loop.msgs, NL)
    IN [host |-> h, log |-> loop.log,
        outcome |-> IF detailed THEN Return(List(loop.msgs))
                    ELSE IF raise_exception /\ Len(loop.msgs) # 0
                         THEN Raise("ValueError", full_msg)
                         ELSE Return(Str(full_msg))]

(* -------------------- the report of a list of msgs --------------------- *)

\* final_report that raises on any issue, whatever raise_exception says
final_report_always_raising(msgs, raise_exception, detailed) ==
    LET full_msgs == SelectSeq(msgs, Truthy)
        full_msg == Join([k \in 1..Len(full_msgs) |-> full_msgs[k].v], NL)
    IN IF detailed THEN Return(List(Flatten([k \in 1..Len(full_msgs) |-> full_msgs[k].v])))
       ELSE IF Len(full_msgs) # 0
            THEN Raise("ValueError", full_msg)
            ELSE Return(Str(full_msg))

\* final_report that joins all msgs, the empty ones too
final_report_unfiltered(msgs, raise_exception, detailed) ==
    LET full_msgs == msgs
        full_msg == Join([k \in 1..Len(full_msgs) |-> full_msgs[k].v], NL)
    IN IF detailed THEN Return(List(Flatten([k \in 1..Len(full_msgs) |-> full_msgs[k].v])))
       ELSE IF raise_exception /\ Len(SelectSeq(msgs, Truthy)) # 0
            THEN Raise("ValueError", full_msg)
            ELSE Return(Str(full_msg))

\* lines 76-82 (and 107-113, 135-141): the final report or the exception
final_report(msgs, raise_exception, detailed) ==
    LET full_msgs == SelectSeq(msgs, Truthy)
        full_msg == Join([k \in 1..Len(full_msgs) |-> full_msgs[k].v], NL)
    IN IF detailed THEN Return(List(Flatten([k \in 1..Len(full_msgs) |-> full_msgs[k].v])))
       ELSE IF raise_exception /\ Len(full_msgs) # 0
            THEN Raise("ValueError", full_msg)
            ELSE Return(Str(full_msg))

(* ------------------------- check_for_extension ------------------------- *)

\* the thirteen calls made before check_no_room_holes, in the order of the code
extension_calls(h, detailed) ==
    LET tol == h.tolerance
        ang_tol == h.angle_tolerance
        e_tol == parse_distance_string_003ft(h.units)
    IN << Invoke("host", 0, "check_all_duplicate_identifiers", <<FALSE, detailed>>),
          Invoke("host", 0, "check_planar", <<tol, FALSE, detailed>>),
          Invoke("host", 0, "check_self_intersecting", <<tol, FALSE, detailed>>),
          Invoke("host", 0, "check_degenerate_rooms", <<e_tol, FALSE, detailed>>),
          Invoke("host", 0, "check_sub_faces_valid", <<tol, ang_tol, FALSE, detailed>>),
          Invoke("host", 0, "check_sub_faces_overlapping", <<tol, FALSE, detailed>>),
          Invoke("host", 0, "check_rooms_solid", <<tol, ang_tol, FALSE, detailed>>),
          Invoke("host", 0, "check_upside_down_faces", <<ang_tol, FALSE, detailed>>),
          Invoke("host", 0, "check_room_volume_collisions", <<tol, FALSE, detailed>>),
          Invoke("host", 0, "check_missing_adjacencies", <<FALSE, detailed>>),
          Invoke("host", 0, "check_matching_adjacent_areas", <<tol, FALSE, detailed>>),
          Invoke("host", 0, "check_all_air_boundaries_adjacent", <<FALSE, detailed>>),
          Invoke("energy", 0, "check_interior_constructions_reversed",
                 <<FALSE, detailed>>) >>

\* what the collaborator answers to one of these calls
answer(h, inv) ==
    CheckResult(inv.method, h.issues[inv.method], inv.args[Len(inv.args)])

\* the calls up to and including the first one that finds an issue
RECURSIVE UpToFirstIssue(_, _)
UpToFirstIssue(h, calls) ==
    IF Len(calls) = 0 THEN <<>>
    ELSE IF Truthy(answer(h, calls[1])) THEN <<calls[1]>>
    ELSE <<calls[1]>> \o UpToFirstIssue(h, Tail(calls))

\* check_for_extension that raises as soon as one check finds an issue
check_for_extension_fail_fast(h, raise_exception, detailed_arg) ==
    LET detailed == IF raise_exception THEN FALSE ELSE detailed_arg
        calls == extension_calls(h, detailed)
        made == UpToFirstIssue(h, calls)
        holes == check_no_room_holes(h, FALSE, detailed)
        msgs == [k \in 1..Len(calls) |-> answer(h, calls[k])]
                    \o <<holes.outcome.value>>
        log == calls \o <<Invoke("self", 0, "check_no_room_holes", <<FALSE, detailed>>)>>
                     \o holes.log
    IN IF raise_exception /\ Truthy(answer(h, made[Len(made)]))
       THEN [host |-> h, log |-> made,
             outcome |-> Raise("ValueError", answer(h, made[Len(made)]).v)]
       ELSE [host |-> holes.host, log |-> log,
             outcome |-> final_report(msgs, raise_exception, detailed)]

check_for_extension(h, raise_exception, detailed_arg) ==
    LET detailed == IF raise_exception THEN FALSE ELSE detailed_arg
        calls == extension_calls(h, detailed)
        holes == check_no_room_holes(h, FALSE, detailed)
        msgs == [k \in 1..Len(calls) |-> answer(h, calls[k])]
                    \o <<holes.outcome.value>>
        log == calls \o <<Invoke("self", 0, "check_no_room_holes", <<FALSE, detailed>>)>>
                     \o holes.log
    IN IF holes.outcome.kind = "raise"
       THEN [host |-> holes.host, log |-> log, outcome |-> holes.outcome]
       ELSE [host |-> holes.host, log |-> log,
             outcome |-> final_report(msgs, raise_exception, detailed)]

(* ---------------------- check_generic, check_all ----------------------- *)

\* check_generic without line 102: detailed is used as the caller gave it
check_generic_detailed_kept(h, raise_exception, detailed_arg) ==
    LET detailed == detailed_arg
        msgs == <<>>
    IN [host |-> h, log |-> <<>>,
        outcome |-> final_report(msgs, raise_exception, detailed)]

check_generic(h, raise_exception, detailed_arg) ==
    LET detailed == IF raise_exception THEN FALSE ELSE detailed_arg
        msgs == <<>>
    IN [host |-> h, log |-> <<>>,
        outcome |-> final_report(msgs, raise_exception, detailed)]

check_all(h, raise_exception, detailed_arg) ==
    LET detailed == IF raise_exception THEN FALSE ELSE detailed_arg
        msgs == <<>>
    IN [host |-> h, log |-> <<>>,
        outcome |-> final_report(msgs, raise_exception, detailed)]

(* ------------------------------ to_dict -------------------------------- *)

to_dict == [type |-> "dict", v |-> [doe2 |-> [type |-> "ModelDoe2Properties"]]]

(* ------------------------------ the state ------------------------------ *)

\* a Room: whether its geometry has a hole, and its DOE-2 properties
NewRoom(hole) == [hole |-> hole, doe2 |-> "default"]

\* the hosts of the check battery: up to MaxFaulty host-level checks find issues,
\* one each or MaxIssues each, and any set of the rooms has holes
CheckHosts ==
    { [issues |-> [c \in HostChecks |-> IF c \in x.F THEN x.n ELSE 0],
       rooms |-> [i \in 1..Cardinality(x.R) |-> NewRoom(i \in x.H)],
       tolerance |-> 10, angle_tolerance |-> 1, units |-> x.u] :
         x \in { y \in [F : SUBSET HostChecks, n : {1, MaxIssues}, R : SUBSET (1..MaxRooms),
                        H : SUBSET (1..MaxRooms), u : Units] :
                   /\ Cardinality(y.F) <= MaxFaulty
                   /\ y.R = 1..Cardinality(y.R)
                   /\ y.H \subseteq y.R
                   /\ (y.F = {} => y.n = 1)
                   /\ (y.F # {} => y.u = "Meters") } }

Record(op, args, run) ==
    [op |-> op, args |-> args, log |-> run.log, outcome |-> run.outcome]

\* ModelDoe2Properties(host): __init__ stores the host and nothing else
Init ==
    /\ host \in CheckHosts
    /\ self_host = "host"
    /\ call = [op |-> "__init__", args |-> <<>>, log |-> <<>>, outcome |-> Return(None)]

CheckForExtension ==
    \E r \in BOOLEAN, d \in BOOLEAN :
        LET run == check_for_extension(host, r, d)
        IN /\ host' = run.host
           /\ call' = Record("check_for_extension", <<r, d>>, run)
           /\ UNCHANGED self_host

CheckGeneric ==
    \E r \in BOOLEAN, d \in BOOLEAN :
        LET run == check_generic(host, r, d)
        IN /\ host' = run.host
           /\ call' = Record("check_generic", <<r, d>>, run)
           /\ UNCHANGED self_host

CheckAll ==
    \E r \in BOOLEAN, d \in BOOLEAN :
        LET run == check_all(host, r, d)
        IN /\ host' = run.host
           /\ call' = Record("check_all", <<r, d>>, run)
           /\ UNCHANGED self_host

CheckNoRoomHoles ==
    \E r \in BOOLEAN, d \in BOOLEAN :
        LET run == check_no_room_holes(host, r, d)
        IN /\ host' = run.host
           /\ call' = Record("check_no_room_holes", <<r, d>>, run)
           /\ UNCHANGED self_host

ToDict ==
    /\ call' = [op |-> "to_dict", args |-> <<>>, log |-> <<>>, outcome |-> Return(to_dict)]
    /\ UNCHANGED <<host, self_host>>

Next == CheckForExtension \/ CheckGeneric \/ CheckAll \/ CheckNoRoomHoles \/ ToDict

Spec == Init /\ [][Next]_vars

(* ======================= the validation battery ======================== *)

\* the order of the battery as the specification lists it
BatteryOrder ==
    << "check_all_duplicate_identifiers", "check_planar", "check_self_intersecting",
       "check_degenerate_rooms", "check_sub_faces_valid", "check_sub_faces_overlapping",
       "check_rooms_solid", "check_upside_down_faces", "check_room_volume_collisions",
       "check_missing_adjacencies", "check_matching_adjacent_areas",
       "check_all_air_boundaries_adjacent", "check_interior_constructions_reversed",
       "check_no_room_holes" >>

IsCheck(op) ==
    op \in {"check_for_extension", "check_generic", "check_all", "check_no_room_holes"}

HoledRooms(h) == {i \in 1..Len(h.rooms) : h.rooms[i].hole}

HostHasIssue(h) == (\E c \in HostChecks : h.issues[c] > 0) \/ HoledRooms(h) # {}

\* the rooms with a hole, in room order
RECURSIVE HoledFrom(_, _)
HoledFrom(h, i) ==
    IF i > Len(h.rooms) THEN <<>>
    ELSE (IF h.rooms[i].hole THEN <<i>> ELSE <<>>) \o HoledFrom(h, i + 1)

\* the issue records of battery member k, and its message lines
RecordsOf(h, k) ==
    IF k = 14
    THEN LET holed == HoledFrom(h, 1)
         IN [j \in 1..Len(holed) |-> [c |-> "check_no_holes", i |-> holed[j]]]
    ELSE [j \in 1..h.issues[BatteryOrder[k]] |-> [c |-> BatteryOrder[k], i |-> j]]

\* all issue records of members k..14 in battery order
RECURSIVE RecordsFrom(_, _)
RecordsFrom(h, k) ==
    IF k > 14 THEN <<>> ELSE RecordsOf(h, k) \o RecordsFrom(h, k + 1)

\* one line per issue record, a newline between two lines
RECURSIVE LinesOf(_)
LinesOf(recs) ==
    IF Len(recs) = 0 THEN <<>>
    ELSE IF Len(recs) = 1 THEN <<recs[1]>>
    ELSE <<recs[1], NL>> \o LinesOf(Tail(recs))

\* C1: check_for_extension raises iff raise_exception is true and some check of the
\* battery found an issue; the error is a ValueError carrying the report that the
\* call with raise_exception=False, detailed=False returns
C1_RaiseIffFlagAndIssues ==
    call.op = "check_for_extension" =>
        /\ (call.outcome.kind = "raise") <=> (call.args[1] /\ HostHasIssue(host))
        /\ call.outcome.kind = "raise" =>
              /\ call.outcome.exc = "ValueError"
              /\ call.outcome.value = check_for_extension(host, FALSE, FALSE).outcome.value
              /\ Len(call.outcome.value.v) > 0

C1_Witness ==
    /\ call.op = "check_for_extension"
    /\ call.outcome.kind = "raise"
    /\ Cardinality({c \in HostChecks : host.issues[c] > 0}) = 2
    /\ HoledRooms(host) # {}

\* C2: with raise_exception=False check_for_extension returns the merge of the
\* battery's results in battery order: the message lines joined by newlines
\* (detailed=False) or the flat list of records (detailed=True); the report is
\* empty exactly when no check found an issue
C2_ReportIsOrderedMerge ==
    (call.op = "check_for_extension" /\ ~call.args[1]) =>
        /\ call.outcome.kind = "return"
        /\ call.outcome.value.type = (IF call.args[2] THEN "list" ELSE "str")
        /\ call.outcome.value.v =
              (IF call.args[2] THEN RecordsFrom(host, 1) ELSE LinesOf(RecordsFrom(host, 1)))
        /\ (Len(call.outcome.value.v) = 0) <=> ~HostHasIssue(host)

C2_Witness ==
    /\ call.op = "check_for_extension"
    /\ call.args = <<FALSE, TRUE>>
    /\ Len(call.outcome.value.v) = 2 * MaxIssues + 2

\* C3: in every check method detailed is forced to False when raise_exception is
\* True: every delegated call gets detailed=False, and the call raises or returns a str
C3_DetailedForcedOff ==
    (IsCheck(call.op) /\ call.args[1]) =>
        /\ \A k \in 1..Len(call.log) : call.log[k].args[Len(call.log[k].args)] = FALSE
        /\ call.outcome.kind = "raise" \/ call.outcome.value.type = "str"

C3_Witness ==
    /\ call.op = "check_no_room_holes"
    /\ call.args = <<TRUE, TRUE>>
    /\ call.outcome.kind = "raise"
    /\ Len(call.log) = 2

\* the calls of the log that are not calls on a room
NonRoom(e) == e.target # "room"

\* C4: every call of check_for_extension makes the fourteen checks once each in the
\* battery order, each with raise_exception=False, whatever the earlier checks found
\* and also when it ends by raising
C4_FourteenChecksInOrder ==
    call.op = "check_for_extension" =>
        LET top == SelectSeq(call.log, NonRoom)
        IN /\ Len(top) = 14
           /\ \A k \in 1..14 :
                 /\ top[k].method = BatteryOrder[k]
                 /\ top[k].args[Len(top[k].args) - 1] = FALSE
                 /\ top[k].target = (IF k = 13 THEN "energy" ELSE IF k = 14 THEN "self"
                                     ELSE "host")
           /\ Len(call.log) = 14 + Len(host.rooms)

C4_Witness ==
    /\ call.op = "check_for_extension"
    /\ call.outcome.kind = "raise"
    /\ host.issues["check_all_duplicate_identifiers"] > 0
    /\ Len(host.rooms) = 2

\* C5: check_no_room_holes calls each room's check_no_holes once, in room order, with
\* raise_exception=False and the normalised detailed flag, merges the results in that
\* order, and raises iff raise_exception is true and some room has a hole
C5_RoomHolesMerge ==
    call.op = "check_no_room_holes" =>
        LET d == IF call.args[1] THEN FALSE ELSE call.args[2]
        IN /\ call.log = [i \in 1..Len(host.rooms) |->
                             Invoke("room", i, "check_no_holes", <<FALSE, d>>)]
           /\ (call.outcome.kind = "raise") <=> (call.args[1] /\ HoledRooms(host) # {})
           /\ call.outcome.value.type = (IF d THEN "list" ELSE "str")
           /\ call.outcome.value.v =
                 (IF d THEN RecordsOf(host, 14) ELSE LinesOf(RecordsOf(host, 14)))

C5_Witness ==
    /\ call.op = "check_no_room_holes"
    /\ Cardinality(HoledRooms(host)) = 2
    /\ call.outcome.kind = "return"
    /\ call.args[2]

\* C6: check_generic and check_all never raise, call nothing, and return the empty
\* report: [] when raise_exception is False and detailed is True, '' otherwise
C6_EmptyBattery ==
    call.op \in {"check_generic", "check_all"} =>
        /\ call.outcome.kind = "return"
        /\ call.log = <<>>
        /\ call.outcome.value.type =
              (IF ~call.args[1] /\ call.args[2] THEN "list" ELSE "str")
        /\ Len(call.outcome.value.v) = 0

C6_Witness ==
    /\ call.op = "check_generic"
    /\ call.args = <<TRUE, TRUE>>
    /\ HostHasIssue(host)

\* C9: a check or to_dict call, returning or raising, leaves the host Model and the
\* host reference unchanged, and a call repeated with the same flags has the same
\* outcome and makes the same calls
C9_ChecksAreReadOnly ==
    [][ /\ host' = host
        /\ self_host' = self_host
        /\ (call'.op = call.op /\ call'.args = call.args) =>
              (call'.outcome = call.outcome /\ call'.log = call.log) ]_vars

C9_Witness ==
    /\ call.op = "check_for_extension"
    /\ call.outcome.kind = "raise"
    /\ HoledRooms(host) # {}
    /\ host.issues["check_planar"] > 0

(* ===================== apply_properties_from_dict ====================== *)

\* room_dict['properties']['doe2'], or None on the KeyError of lines 193-194
room_doe2_dict(room_dict) ==
    IF "properties" \notin DOMAIN room_dict THEN None
    ELSE IF "doe2" \notin DOMAIN room_dict["properties"] THEN None
    ELSE room_dict["properties"]["doe2"]

\* room.properties.doe2.apply_properties_from_dict(r_dict): the room takes the
\* properties of the dictionary
room_apply(room, r_dict) == [room EXCEPT !.doe2 = r_dict.v]

\* the loop over zip(self.host.rooms, room_doe2_dicts), from pair i on
RECURSIVE zip_loop(_, _, _, _)
zip_loop(h, dicts, i, log) ==
    IF i > Len(h.rooms) \/ i > Len(dicts) THEN [host |-> h, log |-> log]
    ELSE IF dicts[i].type # "NoneType"
    THEN zip_loop([h EXCEPT !.rooms[i] = room_apply(h.rooms[i], dicts[i])], dicts,
                  i + 1,
                  Append(log, Invoke("room", i, "apply_properties_from_dict",
                                     <<dicts[i]>>)))
    ELSE zip_loop(h, dicts, i + 1, log)

AssertionMessage == <<[c |-> "Dictionary possesses no ModelDoe2Properties.", i |-> 0]>>

KeyErrorMessage == <<[c |-> "'properties'", i |-> 0]>>

NotNone(x) == x.type # "NoneType"

\* apply_properties_from_dict that leaves out the rooms without a doe2 dictionary
\* instead of keeping None in their place
apply_properties_from_dict_dropping(h, data) ==
    IF "properties" \notin DOMAIN data
    THEN [host |-> h, log |-> <<>>, outcome |-> Raise("KeyError", KeyErrorMessage)]
    ELSE IF "doe2" \notin DOMAIN data["properties"]
    THEN [host |-> h, log |-> <<>>, outcome |-> Raise("AssertionError", AssertionMessage)]
    ELSE IF "rooms" \in DOMAIN data /\ data["rooms"].type # "NoneType"
    THEN LET room_doe2_dicts ==
                 SelectSeq([k \in 1..Len(data["rooms"].v) |->
                               room_doe2_dict(data["rooms"].v[k])], NotNone)
             loop == zip_loop(h, room_doe2_dicts, 1, <<>>)
         IN [host |-> loop.host, log |-> loop.log, outcome |-> Return(None)]
    ELSE [host |-> h, log |-> <<>>, outcome |-> Return(None)]

apply_properties_from_dict(h, data) ==
    IF "properties" \notin DOMAIN data
    THEN [host |-> h, log |-> <<>>, outcome |-> Raise("KeyError", KeyErrorMessage)]
    ELSE IF "doe2" \notin DOMAIN data["properties"]
    THEN [host |-> h, log |-> <<>>, outcome |-> Raise("AssertionError", AssertionMessage)]
    ELSE IF "rooms" \in DOMAIN data /\ data["rooms"].type # "NoneType"
    THEN LET room_doe2_dicts ==
                 [k \in 1..Len(data["rooms"].v) |-> room_doe2_dict(data["rooms"].v[k])]
             loop == zip_loop(h, room_doe2_dicts, 1, <<>>)
         IN [host |-> loop.host, log |-> loop.log, outcome |-> Return(None)]
    ELSE [host |-> h, log |-> <<>>, outcome |-> Return(None)]

\* the room dictionaries of data["rooms"]: without "properties", with properties
\* that lack "doe2", with a null "doe2", with the DOE-2 properties A or B
RoomDicts ==
    { [type |-> "Room"],
      [type |-> "Room", properties |-> [type |-> "RoomProperties"]],
      [type |-> "Room", properties |-> [type |-> "RoomProperties", doe2 |-> None]],
      [type |-> "Room", properties |-> [type |-> "RoomProperties", doe2 |-> Dict("A")]],
      [type |-> "Room", properties |-> [type |-> "RoomProperties", doe2 |-> Dict("B")]] }

RECURSIVE SeqsUpTo(_, _)
SeqsUpTo(S, n) ==
    IF n = 0 THEN {<<>>}
    ELSE LET shorter == SeqsUpTo(S, n - 1)
         IN shorter \cup {Append(q, x) : q \in shorter, x \in S}

RoomsValues == {None} \cup {List(l) : l \in SeqsUpTo(RoomDicts, MaxDataRooms)}

ModelProperties ==
    { [type |-> "ModelProperties"],
      [type |-> "ModelProperties", doe2 |-> to_dict.v.doe2] }

\* the dictionaries given to apply_properties_from_dict
DataDicts ==
    {[type |-> "Model"]}
        \cup {[type |-> "Model", properties |-> p] : p \in ModelProperties}
        \cup {[type |-> "Model", rooms |-> r] : r \in RoomsValues}
        \cup {[type |-> "Model", properties |-> p, rooms |-> r] :
                 p \in ModelProperties, r \in RoomsValues}

ApplyHosts ==
    { [issues |-> [c \in HostChecks |-> 0],
       rooms |-> [i \in 1..nr |-> NewRoom(FALSE)],
       tolerance |-> 10, angle_tolerance |-> 1, units |-> "Meters"] : nr \in 0..MaxRooms }

InitApply ==
    /\ host \in ApplyHosts
    /\ self_host = "host"
    /\ call = [op |-> "__init__", args |-> <<>>, log |-> <<>>, outcome |-> Return(None)]

ApplyPropertiesFromDict ==
    \E data \in DataDicts :
        LET run == apply_properties_from_dict(host, data)
        IN /\ host' = run.host
           /\ call' = Record("apply_properties_from_dict", <<data>>, run)
           /\ UNCHANGED self_host

NextApply == ApplyPropertiesFromDict \/ ToDict

SpecApply == InitApply /\ [][NextApply]_vars

HasModelDoe2(data) == "properties" \in DOMAIN data /\ "doe2" \in DOMAIN data["properties"]

\* the room dictionary has a DOE-2 sub-record (a dictionary, not null) under properties
HasRoomDoe2(room_dict) ==
    /\ "properties" \in DOMAIN room_dict
    /\ "doe2" \in DOMAIN room_dict["properties"]
    /\ room_dict["properties"]["doe2"].type = "dict"

\* the length of data["rooms"], 0 when the key is missing or null
DataRoomCount(data) ==
    IF "rooms" \in DOMAIN data /\ data["rooms"].type = "list" THEN Len(data["rooms"].v)
    ELSE 0

\* C7: apply_properties_from_dict fails with the error "possesses no
\* ModelDoe2Properties" for every data without a "doe2" key under "properties",
\* data without "properties" included, and no room has been applied to
C7_SchemaErrorWithoutDoe2 ==
    (call.op = "apply_properties_from_dict" /\ ~HasModelDoe2(call.args[1])) =>
        /\ call.outcome.kind = "raise"
        /\ call.outcome.exc = "AssertionError"
        /\ call.outcome.value = Str(AssertionMessage)
        /\ call.log = <<>>

\* C8: when the "doe2" precondition holds the call returns, and room i of the host
\* is applied to iff i is within both the host's rooms and data["rooms"] and
\* data["rooms"][i] has a DOE-2 sub-record; it is applied to once, with that sub-record
C8_RoomsAppliedByPosition ==
    (call.op = "apply_properties_from_dict" /\ HasModelDoe2(call.args[1])) =>
        LET data == call.args[1]
            applied(i) == {k \in 1..Len(call.log) : call.log[k].idx = i}
        IN /\ call.outcome = Return(None)
           /\ \A k \in 1..Len(call.log) :
                 /\ call.log[k].target = "room"
                 /\ call.log[k].method = "apply_properties_from_dict"
           /\ \A i \in 1..(MaxRooms + MaxDataRooms) :
                 IF i <= Len(host.rooms) /\ i <= DataRoomCount(data)
                       /\ HasRoomDoe2(data["rooms"].v[i])
                 THEN /\ Cardinality(applied(i)) = 1
                      /\ \A k \in applied(i) :
                            call.log[k].args = <<data["rooms"].v[i]["properties"]["doe2"]>>
                      /\ host.rooms[i].doe2 = data["rooms"].v[i]["properties"]["doe2"].v
                 ELSE applied(i) = {}

C8_Witness ==
    /\ call.op = "apply_properties_from_dict"
    /\ HasModelDoe2(call.args[1])
    /\ Len(host.rooms) = 2
    /\ DataRoomCount(call.args[1]) = 2
    /\ ~HasRoomDoe2(call.args[1]["rooms"].v[1])
    /\ HasRoomDoe2(call.args[1]["rooms"].v[2])
    /\ Len(call.log) = 1

\* a length mismatch is truncated without an error
C8_TruncationReached ==
    /\ call.op = "apply_properties_from_dict"
    /\ call.outcome.kind = "return"
    /\ Len(host.rooms) = 1
    /\ DataRoomCount(call.args[1]) = 2
    /\ HasRoomDoe2(call.args[1]["rooms"].v[2])

(* ======================== command_dict_from_inp ======================== *)

\* An INP text is a sequence of blocks: a comment or blank line, a malformed block,
\* or a command block: keyword, object name and field assignments with the value
\* of each field as a literal.

Number(n) == [type |-> "number", v |-> n]

\* the value of a literal: a numeric literal is parsed to a number, a quoted
\* string is unwrapped, a bracketed comma-delimited list is parsed to a sequence
RECURSIVE parse_value(_)
parse_value(literal) ==
    IF literal.syntax = "number" THEN Number(literal.digits)
    ELSE IF literal.syntax = "quoted" THEN Str(literal.inner)
    ELSE List([k \in 1..Len(literal.items) |-> parse_value(literal.items[k])])

\* the field mapping of a block's assignments; a field assigned twice keeps the last
RECURSIVE field_mapping(_, _)
field_mapping(fields, acc) ==
    IF Len(fields) = 0 THEN acc
    ELSE field_mapping(Tail(fields),
             [f \in DOMAIN acc \cup {fields[1].name} |->
                 IF f = fields[1].name THEN parse_value(fields[1].literal) ELSE acc[f]])

\* result[keyword][name] = mapping, replacing what was there (last write wins)
put_object(result, keyword, name, mapping) ==
    LET objects == IF keyword \in DOMAIN result THEN result[keyword] ELSE <<>>
        updated == [n \in DOMAIN objects \cup {name} |->
                       IF n = name THEN mapping ELSE objects[n]]
    IN [k \in DOMAIN result \cup {keyword} |-> IF k = keyword THEN updated ELSE result[k]]

\* the single pass over the blocks that keeps the first definition of an object
RECURSIVE command_dict_first_wins(_, _)
command_dict_first_wins(text, result) ==
    IF Len(text) = 0 THEN result
    ELSE LET block == text[1]
         IN IF block.kind # "command" THEN command_dict_first_wins(Tail(text), result)
            ELSE IF block.keyword \in DOMAIN result
                    /\ block.name \in DOMAIN result[block.keyword]
            THEN command_dict_first_wins(Tail(text), result)
            ELSE command_dict_first_wins(Tail(text),
                     put_object(result, block.keyword, block.name,
                                field_mapping(block.fields, <<>>)))

\* the single pass over the blocks: comments, blank lines and malformed blocks are
\* skipped, a command block defines result[keyword][name]
RECURSIVE command_dict_from_inp(_, _)
command_dict_from_inp(text, result) ==
    IF Len(text) = 0 THEN result
    ELSE LET block == text[1]
         IN IF block.kind # "command" THEN command_dict_from_inp(Tail(text), result)
            ELSE command_dict_from_inp(Tail(text),
                     put_object(result, block.keyword, block.name,
                                field_mapping(block.fields, <<>>)))

Keywords == {"SPACE", "PARAMETER"}

ObjectNames == {"L1WNE Perim Spc (G.NE1)", "L1SSE Perim Spc (G.SSE2)"}

AreaLiteral == [syntax |-> "number", digits |-> 100]

ZoneLiteral == [syntax |-> "quoted", inner |-> <<[c |-> "CONDITIONED", i |-> 0]>>]

ListLiteral == [syntax |-> "list", items |-> <<AreaLiteral, ZoneLiteral>>]

\* the field assignments of a command block: none, one, or two
FieldLists ==
    { <<>>,
      <<[name |-> "AREA", literal |-> AreaLiteral]>>,
      <<[name |-> "ZONE-TYPE", literal |-> ZoneLiteral],
        [name |-> "LOCATION", literal |-> ListLiteral]>> }

CommandBlock(keyword, name, fields) ==
    [kind |-> "command", keyword |-> keyword, name |-> name, fields |-> fields]

OtherBlock(kind) == [kind |-> kind, keyword |-> "", name |-> "", fields |-> <<>>]

Blocks ==
    {CommandBlock(k, n, f) : k \in Keywords, n \in ObjectNames, f \in FieldLists}
        \cup {OtherBlock("comment"), OtherBlock("malformed")}

InpTexts == SeqsUpTo(Blocks, MaxBlocks)

\* the content of an INP file has been read; no Model is involved
InitInp ==
    /\ host \in {h \in ApplyHosts : Len(h.rooms) = 0}
    /\ self_host = "host"
    /\ \E text \in InpTexts :
          call = [op |-> "read", args |-> <<text>>, log |-> <<>>, outcome |-> Return(None)]

CommandDictFromInp ==
    /\ call.op = "read"
    /\ call' = [op |-> "command_dict_from_inp", args |-> call.args, log |-> <<>>,
                outcome |-> Return(Dict(command_dict_from_inp(call.args[1], <<>>)))]
    /\ UNCHANGED <<host, self_host>>

NextInp == CommandDictFromInp

SpecInp == InitInp /\ [][NextInp]_vars

\* block k of the text is a command block with at least one field assignment
DefinesFields(text, k) == text[k].kind = "command" /\ Len(text[k].fields) > 0

\* block k is the last command block of its keyword and object name
LastOfItsName(text, k) ==
    \A j \in (k + 1)..Len(text) :
        ~(text[j].kind = "command" /\ text[j].keyword = text[k].keyword
            /\ text[j].name = text[k].name)

\* result[keyword][name] exists and is a non-empty field mapping
NonEmptyEntry(result, keyword, name) ==
    /\ keyword \in DOMAIN result
    /\ name \in DOMAIN result[keyword]
    /\ DOMAIN result[keyword][name] # {}

====
